---- MODULE Spec2Model ----
(***************************************************************************)
(* imaginer: batch image conversion and caption-based renaming.            *)
(*                                                                         *)
(* The model covers the four Python modules of the repository:             *)
(*   rename.py   text transforms, rename_file (suffix "_k"), script loop   *)
(*   caption.py  text transforms, rename_file (suffix "k"), script loop    *)
(*   convert.py  convert_image / max_size / compress_image, script loop    *)
(*   cli.py      handle_convert and handle_rename on top of the above      *)
(*                                                                         *)
(* Strings are sequences of one-character strings, so that splitext, the   *)
(* regular expressions of normalise and the str methods are computed       *)
(* character by character.  All paths lie in one directory and are         *)
(* represented by their final component.                                   *)
(***************************************************************************)
EXTENDS Integers, Sequences, FiniteSets, TLC

VARIABLES
    module,     \* the Python module whose code is running
    fs,         \* the directory: file name -> content
    \* ---- text transform chain (one caption through the naming steps)
    caption,    \* text returned by the caption model
    glueOpt, prefixOpt, suffixOpt, caseOpt,   \* args.glue, .prefix, .suffix, .case
    name,       \* the local variable name / caption of the loop body
    tpc,        \* position in the chain
    \* ---- rename_file call history
    pre,        \* the directory as it was when the last rename_file call started
    log,        \* one record per rename_file call
    \* ---- one run of an entry point (cli.py, convert.py, rename.py, caption.py)
    pathArg,    \* args.path / args.image: the directory, or a file name in it
    fmtOpt,     \* args.format
    resizeOpt,  \* whether --max-width or --max-height is given
    compressOpt,\* whether --compress is given
    replaceOpt, \* args.replace (cli.py only)
    outdir,     \* the folder imaginer-converted: whether it exists, and its files
    fs0,        \* the directory as it was when the run started
    work0,      \* the files the run found to process
    todo,       \* the files of the loop not yet visited
    curFile,    \* file_path / image_path of the iteration under way, or None
    cur,        \* current_path in process_one
    ppc,        \* position in convert.py's process_one
    calls,      \* the image operations called for curFile, in order
    count,      \* the counter of the convert loops
    skipped,    \* files for which a failure was printed
    reported,   \* what was printed for the files that went through
    raisedOn,   \* files whose processing raised
    exitCode,   \* the exit status of the process, None while it runs
    result,     \* the outcome the run printed
    pc          \* "start", "loop" or "exit"

textVars == <<caption, glueOpt, prefixOpt, suffixOpt, caseOpt, name, tpc>>
renameVars == <<pre, log>>
optVars == <<pathArg, fmtOpt, resizeOpt, compressOpt, replaceOpt>>
fileVars == <<curFile, cur, ppc, calls>>
runVars == <<outdir, fs0, work0, todo, fileVars, count, skipped, reported,
             raisedOn, exitCode, result, pc>>
driverVars == <<optVars, runVars>>
vars == <<module, fs, textVars, renameVars, driverVars>>

(***************************************************************************)
(* Bounds of the model.                                                    *)
(***************************************************************************)
MaxCaptionLen == 3
MaxFiles == 3
MaxCalls == 3

(***************************************************************************)
(* Characters and Python's str methods.                                    *)
(***************************************************************************)
None == <<"#None">>

LowerLetters ==
    <<"a","b","c","d","e","f","g","h","i","j","k","l","m",
      "n","o","p","q","r","s","t","u","v","w","x","y","z">>

UpperLetters ==
    <<"A","B","C","D","E","F","G","H","I","J","K","L","M",
      "N","O","P","Q","R","S","T","U","V","W","X","Y","Z">>

Digits == <<"0","1","2","3","4","5","6","7","8","9">>

Range(s) == {s[i] : i \in 1..Len(s)}

IndexOf(s, c) == CHOOSE i \in 1..Len(s) : s[i] = c

IsLower(c) == c \in Range(LowerLetters)
IsUpper(c) == c \in Range(UpperLetters)
IsCased(c) == IsLower(c) \/ IsUpper(c)
IsDigit(c) == c \in Range(Digits)
\* \s of the re module, and the characters str.strip() removes
IsSpace(c) == c \in {" ", "\t", "\n", "\r"}

ToUpperChar(c) == IF IsLower(c) THEN UpperLetters[IndexOf(LowerLetters, c)] ELSE c
ToLowerChar(c) == IF IsUpper(c) THEN LowerLetters[IndexOf(UpperLetters, c)] ELSE c

\* str.upper(), str.lower()
StrUpper(s) == [i \in 1..Len(s) |-> ToUpperChar(s[i])]
StrLower(s) == [i \in 1..Len(s) |-> ToLowerChar(s[i])]

\* str.title(): a cased character is upper-cased when the character before it
\* is not cased, and lower-cased otherwise
StrTitle(s) ==
    [i \in 1..Len(s) |->
        IF i > 1 /\ IsCased(s[i-1]) THEN ToLowerChar(s[i]) ELSE ToUpperChar(s[i])]

\* str.capitalize(): first character upper-cased, the rest lower-cased
StrCapitalize(s) ==
    [i \in 1..Len(s) |-> IF i = 1 THEN ToUpperChar(s[i]) ELSE ToLowerChar(s[i])]

\* str(n) for n >= 0
RECURSIVE IntToStr(_)
IntToStr(n) ==
    IF n < 10 THEN <<Digits[n + 1]>>
    ELSE IntToStr(n \div 10) \o <<Digits[(n % 10) + 1]>>

\* truth value of an optional string argument: None and "" are false
Truthy(v) == v # None /\ v # <<>>

(***************************************************************************)
(* Text transforms (rename.py 68-94, caption.py 15-47).                    *)
(***************************************************************************)
prefix(n, string) == string \o n

suffix(n, string) == n \o string

\* str.replace(" ", string)
RECURSIVE glue(_, _)
glue(n, string) ==
    IF n = <<>> THEN <<>>
    ELSE (IF Head(n) = " " THEN string ELSE <<Head(n)>>) \o glue(Tail(n), string)

case(n, case_type) ==
    IF case_type = "upper" THEN StrUpper(n)
    ELSE IF case_type = "lower" THEN StrLower(n)
    ELSE IF case_type = "title" THEN StrTitle(n)
    ELSE IF case_type = "sentence" THEN StrCapitalize(n)
    ELSE n

\* re.sub(r"[^A-Za-z0-9\s]", "", s)
KeptChar(c) == IsCased(c) \/ IsDigit(c) \/ IsSpace(c)
StripOthers(s) == SelectSeq(s, KeptChar)

\* re.sub(r"\s+", " ", s): every maximal run of whitespace becomes one space
RECURSIVE CollapseSpaces(_)
CollapseSpaces(s) ==
    IF s = <<>> THEN <<>>
    ELSE IF IsSpace(Head(s))
         THEN IF Len(s) > 1 /\ IsSpace(s[2])
              THEN CollapseSpaces(Tail(s))
              ELSE <<" ">> \o CollapseSpaces(Tail(s))
         ELSE <<Head(s)>> \o CollapseSpaces(Tail(s))

\* str.strip()
RECURSIVE LStrip(_)
LStrip(s) == IF s # <<>> /\ IsSpace(Head(s)) THEN LStrip(Tail(s)) ELSE s
RECURSIVE RStrip(_)
RStrip(s) ==
    IF s # <<>> /\ IsSpace(s[Len(s)]) THEN RStrip(SubSeq(s, 1, Len(s) - 1)) ELSE s
Strip(s) == LStrip(RStrip(s))

FallbackName == <<"i","m","a","g","e">>

\* rename.py normalise: the cleaned text, or "image" when it is empty
normalise_rename(n) ==
    LET cleaned == Strip(CollapseSpaces(StripOthers(n)))
    IN  IF cleaned = <<>> THEN FallbackName ELSE cleaned

\* caption.py normalise: the cleaned text, no fallback
normalise_caption(n) == Strip(CollapseSpaces(StripOthers(n)))

\* the normalise a module uses (cli.py imports rename.py's)
normalise(m, n) ==
    IF m = "caption.py" THEN normalise_caption(n) ELSE normalise_rename(n)

(***************************************************************************)
(* The naming steps of one loop iteration: cli.py 160-168,                 *)
(* rename.py 163-172, caption.py 91-100.                                   *)
(***************************************************************************)
\* cli.py's handle_rename.process_one repeats the steps (160-168) but never
\* reaches them: see CliRenameIteration
NamingModules == {"rename.py", "caption.py"}

CaptionChars == {"a", "B", " ", "\t", "!", "1"}

RECURSIVE StringsUpTo(_, _)
StringsUpTo(chars, n) ==
    IF n = 0 THEN {<<>>}
    ELSE LET shorter == StringsUpTo(chars, n - 1)
         IN  shorter \cup {Append(s, c) : s \in shorter, c \in chars}

GlueArgs == {None, <<>>, <<"-">>}
PrefixArgs == {None, <<>>, <<"x">>}
SuffixArgs == {None, <<"Y">>}
CaseArgs == {"None", "upper", "lower", "title", "sentence"}

\* the folder imaginer-converted before any run made it
NoOutDir == [made |-> FALSE, files |-> {}]

\* no entry point is running
DriverIdle ==
    /\ pathArg = None /\ fmtOpt = None
    /\ resizeOpt = FALSE /\ compressOpt = FALSE /\ replaceOpt = FALSE
    /\ outdir = NoOutDir /\ fs0 = <<>> /\ work0 = {} /\ todo = {}
    /\ curFile = None /\ cur = None /\ ppc = "idle" /\ calls = <<>>
    /\ count = 0 /\ skipped = {} /\ reported = {} /\ raisedOn = {}
    /\ exitCode = None /\ result = "none" /\ pc = "idle"

\* the four optional steps of the loop body, each guarded by the truth value
\* of its argument (rename.py 165-172, caption.py 93-100, cli.py 161-168)
GlueStep(n) == IF Truthy(glueOpt) THEN glue(n, glueOpt) ELSE n
PrefixStep(n) == IF Truthy(prefixOpt) THEN prefix(n, prefixOpt) ELSE n
SuffixStep(n) == IF Truthy(suffixOpt) THEN suffix(n, suffixOpt) ELSE n
CaseStep(n) == IF caseOpt # "None" THEN case(n, caseOpt) ELSE n

\* the name one loop iteration derives from the caption text c
generated_name(m, c) == CaseStep(SuffixStep(PrefixStep(GlueStep(normalise(m, c)))))

StepNormalise ==
    /\ tpc = "normalise"
    /\ name' = normalise(module, caption)
    /\ tpc' = "glue"
    /\ UNCHANGED <<module, fs, caption, glueOpt, prefixOpt, suffixOpt, caseOpt, renameVars, driverVars>>

StepGlue ==
    /\ tpc = "glue"
    /\ name' = GlueStep(name)
    /\ tpc' = "prefix"
    /\ UNCHANGED <<module, fs, caption, glueOpt, prefixOpt, suffixOpt, caseOpt, renameVars, driverVars>>

StepPrefix ==
    /\ tpc = "prefix"
    /\ name' = PrefixStep(name)
    /\ tpc' = "suffix"
    /\ UNCHANGED <<module, fs, caption, glueOpt, prefixOpt, suffixOpt, caseOpt, renameVars, driverVars>>

StepSuffix ==
    /\ tpc = "suffix"
    /\ name' = SuffixStep(name)
    /\ tpc' = "case"
    /\ UNCHANGED <<module, fs, caption, glueOpt, prefixOpt, suffixOpt, caseOpt, renameVars, driverVars>>

StepCase ==
    /\ tpc = "case"
    /\ name' = CaseStep(name)
    /\ tpc' = "named"
    /\ UNCHANGED <<module, fs, caption, glueOpt, prefixOpt, suffixOpt, caseOpt, renameVars, driverVars>>

InitText ==
    /\ module \in NamingModules
    /\ fs = <<>>
    /\ caption \in StringsUpTo(CaptionChars, MaxCaptionLen)
    /\ glueOpt \in GlueArgs
    /\ prefixOpt \in PrefixArgs
    /\ suffixOpt \in SuffixArgs
    /\ caseOpt \in CaseArgs
    /\ name = <<>>
    /\ tpc = "normalise"
    /\ pre = <<>>
    /\ log = <<>>
    /\ DriverIdle

NextText == StepNormalise \/ StepGlue \/ StepPrefix \/ StepSuffix \/ StepCase

SpecText == InitText /\ [][NextText]_vars

(***************************************************************************)
(* Paths and the directory.                                                *)
(***************************************************************************)
\* index of the last "." of p, 0 when there is none (str.rfind)
LastDot(p) ==
    IF \E i \in 1..Len(p) : p[i] = "."
    THEN CHOOSE i \in 1..Len(p) : p[i] = "." /\ \A j \in (i+1)..Len(p) : p[j] # "."
    ELSE 0

\* os.path.splitext on a file name: <<root, ext>>; leading dots are not an
\* extension separator
splitext(p) ==
    LET d == LastDot(p)
    IN  IF d > 0 /\ \E j \in 1..(d-1) : p[j] # "."
        THEN <<SubSeq(p, 1, d - 1), SubSeq(p, d, Len(p))>>
        ELSE <<p, <<>>>>

\* os.path.exists(os.path.join(dir_name, p)); the empty name is the directory
exists(dir, p) == p = <<>> \/ p \in DOMAIN dir

\* os.rename(src, dst) for an existing src: dst is replaced when it exists
os_rename(dir, src, dst) ==
    [n \in (DOMAIN dir \ {src}) \cup {dst} |-> IF n = dst THEN dir[src] ELSE dir[n]]

\* pathlib's Path.suffix: the text from the last dot, unless that dot is the
\* first or the last character of the name
PathSuffix(p) ==
    LET d == LastDot(p)
    IN  IF 1 < d /\ d < Len(p) THEN SubSeq(p, d, Len(p)) ELSE <<>>

\* str.endswith
EndsWith(p, e) ==
    Len(p) >= Len(e) /\ SubSeq(p, Len(p) - Len(e) + 1, Len(p)) = e

PNG == <<".", "p", "n", "g">>
JPG == <<".", "j", "p", "g">>
JPEG == <<".", "j", "p", "e", "g">>
WEBP == <<".", "w", "e", "b", "p">>
GIF == <<".", "g", "i", "f">>
TXT == <<".", "t", "x", "t">>

\* convert.py FORMAT_ALIASES
FORMAT_ALIASES ==
    (<<"j", "p", "g">> :> <<"J", "P", "E", "G">>) @@
    (<<"j", "p", "e", "g">> :> <<"J", "P", "E", "G">>) @@
    (<<"p", "n", "g">> :> <<"P", "N", "G">>) @@
    (<<"w", "e", "b", "p">> :> <<"W", "E", "B", "P">>)

\* FORMAT_ALIASES.get(fmt.lower(), fmt.upper())
FormatName(fmt) ==
    IF StrLower(fmt) \in DOMAIN FORMAT_ALIASES
    THEN FORMAT_ALIASES[StrLower(fmt)]
    ELSE StrUpper(fmt)

\* the format an image library writes to, and expects at, a path: by extension
FormatAt(p) ==
    LET e == splitext(p)[2]
    IN  IF e = <<>> THEN <<>> ELSE FormatName(Tail(e))

\* the content of a file: which picture it holds, in which encoding, whether
\* opening it fails, whether encoding it in convert_image fails, and what has
\* been done to it
Content(n, isBad) ==
    [img |-> n, fmt |-> FormatAt(n), bad |-> isBad, noenc |-> FALSE,
     resized |-> FALSE, compressed |-> FALSE]

(***************************************************************************)
(* rename_file (rename.py 112-126, caption.py 62-71).                      *)
(***************************************************************************)
\* mutation: the suffix is one more than the counter
Candidate_OffByOne(m, base, counter, ext) ==
    IF m = "caption.py"
    THEN base \o IntToStr(counter + 1) \o ext
    ELSE base \o <<"_">> \o IntToStr(counter + 1) \o ext

\* the k-th candidate: f"{base}_{counter}{ext}" in rename.py (which cli.py
\* imports), f"{base}{counter}{ext}" in caption.py
Candidate(m, base, counter, ext) ==
    IF m = "caption.py"
    THEN base \o IntToStr(counter) \o ext
    ELSE base \o <<"_">> \o IntToStr(counter) \o ext

\* the extension rename_file works with: rename.py falls back to the source
\* file's extension when the new name has none
ResolvedExt(m, path, new_name) ==
    LET ext == splitext(new_name)[2]
    IN  IF m # "caption.py" /\ ext = <<>> THEN splitext(path)[2] ELSE ext

\* the first path tried
FirstPath(m, path, new_name) ==
    IF m = "caption.py" THEN new_name
    ELSE splitext(new_name)[1] \o ResolvedExt(m, path, new_name)

\* mutation: the existence test is missing, the first path is always taken
ProbeLoop_NoExistsTest(m, dir, base, ext, new_path, counter) ==
    [path |-> new_path, counter |-> counter]

\* counter = 1; while os.path.exists(new_path): new_path = ...; counter += 1
RECURSIVE ProbeLoop(_, _, _, _, _, _)
ProbeLoop(m, dir, base, ext, new_path, counter) ==
    IF exists(dir, new_path)
    THEN ProbeLoop(m, dir, base, ext, Candidate(m, base, counter, ext), counter + 1)
    ELSE [path |-> new_path, counter |-> counter]

\* the path rename_file passes to os.rename, with the final value of counter
rename_target(m, dir, path, new_name) ==
    ProbeLoop(m, dir, splitext(new_name)[1], ResolvedExt(m, path, new_name),
              FirstPath(m, path, new_name), 1)

\* the names the initial directory is drawn from: the desired name a.png, its
\* first two suffixed forms in the module's spelling, and two other files
NamePool(m) ==
    IF m = "caption.py"
    THEN { <<"a">> \o PNG, <<"a", "1">> \o PNG, <<"a", "2">> \o PNG,
           <<"b">> \o PNG, <<"c">> \o JPG }
    ELSE { <<"a">> \o PNG, <<"a", "_", "1">> \o PNG, <<"a", "_", "2">> \o PNG,
           <<"b">> \o PNG, <<"c">> \o JPG }

\* the new names rename_file is called with: with and without an extension
NewNames == { <<"a">> \o PNG, <<"a">> }

\* a path at which no file exists
MissingPaths == { <<"z">> \o PNG }

\* a directory holding the files of S, each with its own readable content
DirOf(S) == [n \in S |-> Content(n, FALSE)]

\* rename_file(path, new_name) on an existing file
RenameFile ==
    /\ Len(log) < MaxCalls
    /\ \E path \in DOMAIN fs, new_name \in NewNames :
        LET t == rename_target(module, fs, path, new_name)
        IN  /\ fs' = os_rename(fs, path, t.path)
            /\ pre' = fs
            /\ log' = Append(log,
                   [src |-> path, file |-> fs[path], new_name |-> new_name,
                    base |-> splitext(new_name)[1],
                    ext |-> ResolvedExt(module, path, new_name),
                    dst |-> t.path, k |-> t.counter - 1, raised |-> FALSE])
    /\ UNCHANGED <<module, textVars, driverVars>>

\* rename_file(path, new_name) on a path that does not exist: os.rename raises
\* FileNotFoundError and the directory is left as it was
RenameMissing ==
    /\ Len(log) < MaxCalls
    /\ \E path \in MissingPaths \ DOMAIN fs, new_name \in NewNames :
        LET t == rename_target(module, fs, path, new_name)
        IN  /\ fs' = fs
            /\ pre' = fs
            /\ log' = Append(log,
                   [src |-> path, file |-> None, new_name |-> new_name,
                    base |-> splitext(new_name)[1],
                    ext |-> ResolvedExt(module, path, new_name),
                    dst |-> t.path, k |-> t.counter - 1, raised |-> TRUE])
    /\ UNCHANGED <<module, textVars, driverVars>>

InitRename ==
    /\ module \in {"rename.py", "caption.py"}
    /\ \E S \in SUBSET NamePool(module) : Cardinality(S) <= MaxFiles /\ fs = DirOf(S)
    /\ pre = fs
    /\ log = <<>>
    /\ caption = <<>>
    /\ glueOpt = None
    /\ prefixOpt = None
    /\ suffixOpt = None
    /\ caseOpt = "None"
    /\ name = <<>>
    /\ tpc = "idle"
    /\ DriverIdle

NextRename == RenameFile \/ RenameMissing

SpecRename == InitRename /\ [][NextRename]_vars

(***************************************************************************)
(* Entry points: what a run finds to process.                              *)
(***************************************************************************)
ConvertEntries == {"convert.py", "cli.convert"}
NamingEntries == {"rename.py", "caption.py", "cli.rename"}
EntryPoints == ConvertEntries \cup NamingEntries

\* the path of the directory itself
TheDir == <<>>

BMP == <<".", "b", "m", "p">>
TIFF == <<".", "t", "i", "f", "f">>
TIF == <<".", "t", "i", "f">>

\* convert.py IMAGE_EXTS (which cli.py imports) and rename.py IMAGE_EXTS
IMAGE_EXTS_convert == {JPG, JPEG, PNG, WEBP, BMP, TIFF, TIF, GIF}
IMAGE_EXTS_rename == {JPG, JPEG, PNG, WEBP}

isdir(p) == p = TheDir
isfile(dir, p) == p # TheDir /\ p \in DOMAIN dir

\* convert.py is_image_file
is_image_file(dir, p) ==
    isfile(dir, p) /\ StrLower(PathSuffix(p)) \in IMAGE_EXTS_convert

\* rename.py _is_image_file
is_image_file_rename(dir, p) ==
    isfile(dir, p) /\ StrLower(splitext(p)[2]) \in IMAGE_EXTS_rename

\* the files a directory run lists: cli.py 115 and 175, convert.py 89,
\* rename.py 100-110, caption.py 82
ListImages(m, dir) ==
    IF m = "rename.py" THEN {f \in DOMAIN dir : is_image_file_rename(dir, f)}
    ELSE IF m = "caption.py"
    THEN {f \in DOMAIN dir : EndsWith(f, PNG) \/ EndsWith(f, JPG) \/ EndsWith(f, JPEG)}
    ELSE {f \in DOMAIN dir : is_image_file(dir, f)}

StartLoop(files) ==
    /\ todo' = files
    /\ work0' = files
    /\ pc' = "loop"
    /\ UNCHANGED <<exitCode, result>>

ExitNow(code, res) ==
    /\ pc' = "exit"
    /\ exitCode' = code
    /\ result' = res
    /\ UNCHANGED <<todo, work0>>

ResolveFrame ==
    UNCHANGED <<module, fs, textVars, renameVars, optVars, outdir, fs0, fileVars,
                count, skipped, reported, raisedOn>>

\* cli.py handle_convert 114-140 and handle_rename 177-200, up to the loop
CliResolve ==
    \/ /\ isdir(pathArg)
       /\ ListImages(module, fs) # {}
       /\ StartLoop(ListImages(module, fs))
    \/ /\ isdir(pathArg)
       /\ ListImages(module, fs) = {}
       /\ ExitNow(0, "no_images")
    \/ /\ isfile(fs, pathArg)
       /\ StrLower(PathSuffix(pathArg)) \notin IMAGE_EXTS_convert
       /\ ExitNow(2, "unsupported")
    \/ /\ isfile(fs, pathArg)
       /\ StrLower(PathSuffix(pathArg)) \in IMAGE_EXTS_convert
       /\ StartLoop({pathArg})
    \/ /\ ~isdir(pathArg) /\ ~isfile(fs, pathArg)
       /\ ExitNow(2, "not_found")

ResolveCliConvert ==
    /\ pc = "start" /\ module = "cli.convert"
    /\ CliResolve
    /\ ResolveFrame

ResolveCliRename ==
    /\ pc = "start" /\ module = "cli.rename"
    /\ CliResolve
    /\ ResolveFrame

\* convert.py 84-109, up to the loop: every branch ends the script normally
ResolveConvertPy ==
    /\ pc = "start" /\ module = "convert.py"
    /\ \/ /\ isdir(pathArg)
          /\ ListImages(module, fs) # {}
          /\ StartLoop(ListImages(module, fs))
       \/ /\ isdir(pathArg)
          /\ ListImages(module, fs) = {}
          /\ ExitNow(0, "no_images")
       \/ /\ isfile(fs, pathArg)
          /\ ~is_image_file(fs, pathArg)
          /\ ExitNow(0, "unsupported")
       \/ /\ isfile(fs, pathArg)
          /\ is_image_file(fs, pathArg)
          /\ StartLoop({pathArg})
       \/ /\ ~isdir(pathArg) /\ ~isfile(fs, pathArg)
          /\ ExitNow(0, "not_found")
    /\ ResolveFrame

\* rename.py 143-153: a path that is no supported image file, existing or
\* not, prints one message and exits with status 1
ResolveRenamePy ==
    /\ pc = "start" /\ module = "rename.py"
    /\ \/ /\ isdir(pathArg)
          /\ ListImages(module, fs) # {}
          /\ StartLoop(ListImages(module, fs))
       \/ /\ isdir(pathArg)
          /\ ListImages(module, fs) = {}
          /\ ExitNow(0, "no_images")
       \/ /\ ~isdir(pathArg)
          /\ ~is_image_file_rename(fs, pathArg)
          /\ ExitNow(1, "unsupported")
       \/ /\ ~isdir(pathArg)
          /\ is_image_file_rename(fs, pathArg)
          /\ StartLoop({pathArg})
    /\ ResolveFrame

\* caption.py 81-84: a path that is no directory is taken as the one image
ResolveCaptionPy ==
    /\ pc = "start" /\ module = "caption.py"
    /\ \/ /\ isdir(pathArg)
          /\ StartLoop(ListImages(module, fs))
       \/ /\ ~isdir(pathArg)
          /\ StartLoop({pathArg})
    /\ ResolveFrame

(***************************************************************************)
(* Image operations (convert.py 12-59).                                    *)
(***************************************************************************)
\* Image.open(path) raises: no such file (or no path at all), or a file that
\* cannot be read
CannotOpen(dir, path) ==
    IF path = None \/ path \notin DOMAIN dir THEN TRUE ELSE dir[path].bad

\* convert_image: new_path = f"{base}.{fmt.lower()}" after the alias lookup
NewPath(image, fmt) == splitext(image)[1] \o <<".">> \o StrLower(FormatName(fmt))

\* convert_image, im.save(new_path, format=fmt): the picture of image,
\* encoded as fmt, is at new_path, whatever was there before
SaveConverted(dir, image, fmt) ==
    LET new_path == NewPath(image, fmt)
    IN  [n \in DOMAIN dir \cup {new_path} |->
            IF n = new_path
            THEN [dir[image] EXCEPT !.fmt = FormatName(fmt)]
            ELSE dir[n]]

\* im.save(new_path, format=fmt) raises while encoding.  The library has
\* opened new_path for writing by then, so a file that was there (the
\* original itself when the paths are equal) is left cut short; a file that
\* was not there is left cut short or removed again, depending on the
\* library's version (keeps says which)
SaveFailed(dir, image, fmt, keeps) ==
    LET new_path == NewPath(image, fmt)
    IN  IF new_path \in DOMAIN dir \/ keeps
        THEN [n \in DOMAIN dir \cup {new_path} |->
                IF n = new_path
                THEN [dir[image] EXCEPT !.bad = TRUE, !.fmt = FormatName(fmt)]
                ELSE dir[n]]
        ELSE dir

\* whether im.save raises in convert_image: decided by the picture
CannotEncode(dir, image) == dir[image].noenc

\* mutation: the original is removed without comparing the two paths
RemoveOriginal_NoSamePathTest(dir, image, fmt) ==
    IF exists(dir, NewPath(image, fmt)) /\ exists(dir, image)
    THEN [n \in DOMAIN dir \ {image} |-> dir[n]]
    ELSE dir

\* convert_image 32-33: the original is removed when the paths differ and
\* both files exist
RemoveOriginal(dir, image, fmt) ==
    LET new_path == NewPath(image, fmt)
        same_path == new_path = image
    IN  IF ~same_path /\ exists(dir, new_path) /\ exists(dir, image)
        THEN [n \in DOMAIN dir \ {image} |-> dir[n]]
        ELSE dir

\* max_size: the file is rewritten in place, no larger than the bounds
Resized(dir, image) ==
    [dir EXCEPT ![image] = [@ EXCEPT !.resized = TRUE, !.fmt = FormatAt(image)]]

\* compress_image: the file is rewritten in place at the given quality
Compressed(dir, image) ==
    [dir EXCEPT ![image] = [@ EXCEPT !.compressed = TRUE, !.fmt = FormatAt(image)]]

(***************************************************************************)
(* convert.py: process_one (70-82) inside the loops of 93-99 and 104-107.  *)
(***************************************************************************)
\* the next requested operation after op, "report" when there is none
StageAfter(op) ==
    IF op = "convert" /\ resizeOpt THEN "resize"
    ELSE IF op \in {"convert", "resize"} /\ compressOpt THEN "compress"
    ELSE "report"

FirstStage == IF fmtOpt # None THEN "convert" ELSE StageAfter("convert")

BetweenFiles == ppc \in {"idle", "done", "raised"}

ConvertPyFrame ==
    UNCHANGED <<module, textVars, renameVars, optVars, outdir, fs0, work0,
                exitCode, result, pc>>

\* for f in files: ... process_one(f, ...): current_path = str(file_path)
BeginFile ==
    /\ pc = "loop" /\ module = "convert.py"
    /\ BetweenFiles
    /\ \E f \in todo :
        /\ todo' = todo \ {f}
        /\ curFile' = f
        /\ cur' = f
    /\ calls' = <<>>
    /\ ppc' = FirstStage
    /\ UNCHANGED <<fs, count, skipped, reported, raisedOn>>
    /\ ConvertPyFrame

\* an image operation raised: the except clause prints the file and the loop
\* goes on (convert.py 97-98, 106-107)
RaisedIn(op) ==
    /\ calls' = Append(calls, [op |-> op, input |-> cur, wrote |-> None])
    /\ skipped' = skipped \cup {curFile}
    /\ raisedOn' = raisedOn \cup {curFile}
    /\ ppc' = "raised"
    /\ UNCHANGED <<fs, todo, curFile, cur, count, reported>>

\* convert_image 14-30: open the image and save it at new_path
ConvertOpenSave ==
    /\ pc = "loop" /\ module = "convert.py"
    /\ ppc = "convert"
    /\ \/ /\ CannotOpen(fs, cur)
          /\ RaisedIn("convert")
       \/ /\ ~CannotOpen(fs, cur)
          /\ CannotEncode(fs, cur)
          /\ \E keeps \in BOOLEAN :
                /\ fs' = SaveFailed(fs, cur, fmtOpt, keeps)
                /\ calls' = Append(calls, [op |-> "convert", input |-> cur,
                                           wrote |-> None])
          /\ skipped' = skipped \cup {curFile}
          /\ raisedOn' = raisedOn \cup {curFile}
          /\ ppc' = "raised"
          /\ UNCHANGED <<todo, curFile, cur, count, reported>>
       \/ /\ ~CannotOpen(fs, cur)
          /\ ~CannotEncode(fs, cur)
          /\ fs' = SaveConverted(fs, cur, fmtOpt)
          /\ calls' = Append(calls, [op |-> "convert", input |-> cur,
                                     wrote |-> NewPath(cur, fmtOpt)])
          /\ ppc' = "remove"
          /\ UNCHANGED <<todo, curFile, cur, count, skipped, reported, raisedOn>>
    /\ ConvertPyFrame

\* convert_image 32-35: remove the original, return new_path
ConvertRemove ==
    /\ pc = "loop" /\ module = "convert.py"
    /\ ppc = "remove"
    /\ fs' = RemoveOriginal(fs, cur, fmtOpt)
    /\ cur' = NewPath(cur, fmtOpt)
    /\ ppc' = StageAfter("convert")
    /\ UNCHANGED <<todo, curFile, calls, count, skipped, reported, raisedOn>>
    /\ ConvertPyFrame

\* max_size(current_path, max_w, max_h)
Resize ==
    /\ pc = "loop" /\ module = "convert.py"
    /\ ppc = "resize"
    /\ \/ /\ CannotOpen(fs, cur)
          /\ RaisedIn("resize")
       \/ /\ ~CannotOpen(fs, cur)
          /\ fs' = Resized(fs, cur)
          /\ calls' = Append(calls, [op |-> "resize", input |-> cur, wrote |-> cur])
          /\ ppc' = StageAfter("resize")
          /\ UNCHANGED <<todo, curFile, cur, count, skipped, reported, raisedOn>>
    /\ ConvertPyFrame

\* compress_image(current_path, quality)
Compress ==
    /\ pc = "loop" /\ module = "convert.py"
    /\ ppc = "compress"
    /\ \/ /\ CannotOpen(fs, cur)
          /\ RaisedIn("compress")
       \/ /\ ~CannotOpen(fs, cur)
          /\ fs' = Compressed(fs, cur)
          /\ calls' = Append(calls, [op |-> "compress", input |-> cur, wrote |-> cur])
          /\ ppc' = StageAfter("compress")
          /\ UNCHANGED <<todo, curFile, cur, count, skipped, reported, raisedOn>>
    /\ ConvertPyFrame

\* print(f"Done: {current_path}"), and count += 1 in the directory loop
Report ==
    /\ pc = "loop" /\ module = "convert.py"
    /\ ppc = "report"
    /\ reported' = reported \cup {[file |-> curFile, done |-> cur]}
    /\ count' = IF isdir(pathArg) THEN count + 1 ELSE count
    /\ ppc' = "done"
    /\ UNCHANGED <<fs, todo, curFile, cur, calls, skipped, raisedOn>>
    /\ ConvertPyFrame

(***************************************************************************)
(* cli.py handle_convert: process_one (74-112) inside the loops of         *)
(* 120-125 and 132-137.  It calls convert.py's functions with keyword      *)
(* arguments they do not take (remove_original, out_path), which raises    *)
(* TypeError before the function body runs, and it keeps what max_size     *)
(* and compress_image return, which is None.                               *)
(***************************************************************************)
OutPath(f) == <<"imaginer-converted/">> \o f

\* dest_dir.mkdir(exist_ok=True)
MkOutDir(out) == [out EXCEPT !.made = TRUE]

\* shutil.copy2(file_path, dest_path)
CopyInto(out, f, content) ==
    [made |-> TRUE,
     files |-> {e \in out.files : e.name # f} \cup {[name |-> f, content |-> content]}]

\* lines 77-85 (args.replace): what the body leaves behind
cli_in_place(dir, f) ==
    IF fmtOpt # None
    THEN [raised |-> TRUE, fs |-> dir, cur |-> f, calls |-> <<>>]
    ELSE
      LET r1 == IF ~resizeOpt
                THEN [raised |-> FALSE, fs |-> dir, cur |-> f, calls |-> <<>>]
                ELSE IF CannotOpen(dir, f)
                THEN [raised |-> TRUE, fs |-> dir, cur |-> f,
                      calls |-> <<[op |-> "resize", input |-> f, wrote |-> None]>>]
                ELSE [raised |-> FALSE, fs |-> Resized(dir, f), cur |-> None,
                      calls |-> <<[op |-> "resize", input |-> f, wrote |-> f]>>]
      IN  IF r1.raised \/ ~compressOpt THEN r1
          ELSE IF CannotOpen(r1.fs, r1.cur)
          THEN [raised |-> TRUE, fs |-> r1.fs, cur |-> r1.cur,
                calls |-> Append(r1.calls,
                    [op |-> "compress", input |-> r1.cur, wrote |-> None])]
          ELSE [raised |-> FALSE, fs |-> Compressed(r1.fs, r1.cur), cur |-> None,
                calls |-> Append(r1.calls,
                    [op |-> "compress", input |-> r1.cur, wrote |-> r1.cur])]

\* lines 88-112 (default): only the plain copy gets through.  copy_fails says
\* whether shutil.copy2 raised on the file
cli_default(dir, out, f, copy_fails) ==
    IF fmtOpt = None /\ ~resizeOpt /\ ~compressOpt /\ ~copy_fails
    THEN [raised |-> FALSE, cur |-> OutPath(f),
          out |-> CopyInto(MkOutDir(out), f, dir[f])]
    ELSE [raised |-> TRUE, cur |-> f, out |-> MkOutDir(out)]

\* whether shutil.copy2 raises on f: never on a file that can be read; a file
\* that Image.open cannot read is either not readable at all (copy2 raises)
\* or readable but no picture (copy2 copies it)
CopyOutcomes(dir, f) == IF dir[f].bad THEN BOOLEAN ELSE {FALSE}

CliConvertFrame ==
    UNCHANGED <<module, textVars, renameVars, optVars, fs0, work0,
                exitCode, result, pc>>

CliConvertIteration ==
    /\ pc = "loop" /\ module = "cli.convert"
    /\ \E f \in todo :
        /\ todo' = todo \ {f}
        /\ curFile' = f
        /\ \/ /\ replaceOpt
              /\ LET r == cli_in_place(fs, f)
                 IN  /\ fs' = r.fs
                     /\ cur' = r.cur
                     /\ calls' = r.calls
                     /\ ppc' = IF r.raised THEN "raised" ELSE "done"
                     /\ raisedOn' = IF r.raised THEN raisedOn \cup {f} ELSE raisedOn
                     /\ skipped' = IF r.raised THEN skipped \cup {f} ELSE skipped
                     /\ reported' = IF r.raised THEN reported
                                    ELSE reported \cup {[file |-> f, done |-> r.cur]}
                     /\ count' = IF ~r.raised /\ isdir(pathArg) THEN count + 1 ELSE count
              /\ UNCHANGED outdir
           \/ /\ ~replaceOpt
              /\ \E copy_fails \in CopyOutcomes(fs, f) :
                 LET r == cli_default(fs, outdir, f, copy_fails)
                 IN  /\ outdir' = r.out
                     /\ cur' = r.cur
                     /\ ppc' = IF r.raised THEN "raised" ELSE "done"
                     /\ raisedOn' = IF r.raised THEN raisedOn \cup {f} ELSE raisedOn
                     /\ skipped' = IF r.raised THEN skipped \cup {f} ELSE skipped
                     /\ reported' = IF r.raised THEN reported
                                    ELSE reported \cup {[file |-> f, done |-> r.cur]}
                     /\ count' = IF ~r.raised /\ isdir(pathArg) THEN count + 1 ELSE count
              /\ calls' = <<>>
              /\ UNCHANGED fs
    /\ CliConvertFrame

(***************************************************************************)
(* The naming loops: rename.py 156-180, caption.py 87-104,                 *)
(* cli.py 158-172 with 182-186 and 192-197.                                *)
(***************************************************************************)
\* the caption texts the model returns in a run
DriverCaptions == { <<"a">>, <<"!">>, <<"b", " ", "c">> }

NamingFrame ==
    UNCHANGED <<module, glueOpt, prefixOpt, suffixOpt, caseOpt, tpc, optVars,
                outdir, fs0, work0, cur, calls, count>>

\* the iteration went through: the file is renamed and a line is printed
Renamed(f, c) ==
    LET nm == generated_name(module, c)
        new_name == nm \o splitext(f)[2]
        t == rename_target(module, fs, f, new_name)
    IN  /\ fs' = os_rename(fs, f, t.path)
        /\ pre' = fs
        /\ log' = Append(log,
               [src |-> f, file |-> fs[f], new_name |-> new_name,
                base |-> splitext(new_name)[1],
                ext |-> ResolvedExt(module, f, new_name),
                dst |-> t.path, k |-> t.counter - 1, raised |-> FALSE])
        /\ caption' = c
        /\ name' = nm
        /\ reported' = reported \cup {[file |-> f, done |-> t.path]}
        /\ ppc' = "done"

\* rename.py: a caption failure is printed and the loop continues
RenamePyIteration ==
    /\ pc = "loop" /\ module = "rename.py"
    /\ \E f \in todo :
        /\ todo' = todo \ {f}
        /\ curFile' = f
        /\ \/ /\ CannotOpen(fs, f)
              /\ skipped' = skipped \cup {f}
              /\ raisedOn' = raisedOn \cup {f}
              /\ ppc' = "raised"
              /\ UNCHANGED <<fs, pre, log, caption, name, reported>>
           \/ /\ ~CannotOpen(fs, f)
              /\ \E c \in DriverCaptions : Renamed(f, c)
              /\ UNCHANGED <<skipped, raisedOn>>
    /\ UNCHANGED <<exitCode, result, pc>>
    /\ NamingFrame

\* caption.py: nothing catches a failure of generate_caption; the script ends
\* with a traceback and status 1, the rest of the list is not visited
CaptionPyIteration ==
    /\ pc = "loop" /\ module = "caption.py"
    /\ \E f \in todo :
        /\ todo' = todo \ {f}
        /\ curFile' = f
        /\ \/ /\ CannotOpen(fs, f)
              /\ raisedOn' = raisedOn \cup {f}
              /\ ppc' = "raised"
              /\ pc' = "exit"
              /\ exitCode' = 1
              /\ result' = "traceback"
              /\ UNCHANGED <<fs, pre, log, caption, name, reported, skipped>>
           \/ /\ ~CannotOpen(fs, f)
              /\ \E c \in DriverCaptions : Renamed(f, c)
              /\ UNCHANGED <<skipped, raisedOn, exitCode, result, pc>>
    /\ NamingFrame

\* cli.py: process_one calls generate_name(path, model, context=...), and
\* rename.py's generate_name takes no context: TypeError for every file, which
\* the loop prints as skipped
CliRenameIteration ==
    /\ pc = "loop" /\ module = "cli.rename"
    /\ \E f \in todo :
        /\ todo' = todo \ {f}
        /\ curFile' = f
        /\ skipped' = skipped \cup {f}
        /\ raisedOn' = raisedOn \cup {f}
    /\ ppc' = "raised"
    /\ UNCHANGED <<fs, pre, log, caption, name, reported, exitCode, result, pc>>
    /\ NamingFrame

(***************************************************************************)
(* The end of a run.                                                       *)
(***************************************************************************)
\* the loop is over.  cli.py returns 1 when its single file raised (136-137,
\* 196-197) and 0 otherwise; the scripts end normally
Finish ==
    /\ pc = "loop"
    /\ todo = {}
    /\ BetweenFiles
    /\ pc' = "exit"
    /\ exitCode' = IF module \in {"cli.convert", "cli.rename"}
                      /\ ~isdir(pathArg) /\ raisedOn # {}
                   THEN 1 ELSE 0
    /\ result' = IF raisedOn # {} /\ ~isdir(pathArg) THEN "error" ELSE "done"
    /\ UNCHANGED <<module, fs, textVars, renameVars, optVars, outdir, fs0, work0,
                   todo, fileVars, count, skipped, reported, raisedOn>>

(***************************************************************************)
(* One run of one entry point on one directory.                            *)
(***************************************************************************)
MaxBad == 1

\* the names the directory of a run is drawn from
DriverPool ==
    { <<"a">> \o JPG, <<"a">> \o PNG, <<"a">> \o WEBP, <<"b">> \o GIF,
      <<"n">> \o TXT }

\* the path arguments that are not the directory
SinglePaths == { <<"a">> \o PNG, <<"n">> \o TXT }

FormatArgs == { None, <<"w", "e", "b", "p">>, <<"j", "p", "g">> }

Init ==
    /\ module \in EntryPoints
    /\ \E S \in SUBSET DriverPool :
        \E B \in SUBSET {n \in S : splitext(n)[2] # TXT} :
          \E E \in SUBSET (IF module = "convert.py"
                            THEN {n \in S \ B : splitext(n)[2] # TXT} ELSE {}) :
            /\ Cardinality(S) <= MaxFiles
            /\ Cardinality(B) + Cardinality(E) <= MaxBad
            /\ fs = [n \in S |->
                      [Content(n, n \in B \/ splitext(n)[2] = TXT)
                          EXCEPT !.noenc = (n \in E)]]
    /\ fs0 = fs
    /\ pathArg \in {TheDir} \cup SinglePaths
    /\ fmtOpt \in (IF module \in ConvertEntries THEN FormatArgs ELSE {None})
    /\ resizeOpt \in (IF module \in ConvertEntries THEN BOOLEAN ELSE {FALSE})
    /\ compressOpt \in (IF module \in ConvertEntries THEN BOOLEAN ELSE {FALSE})
    /\ replaceOpt \in (IF module = "cli.convert" THEN BOOLEAN ELSE {FALSE})
    /\ glueOpt \in (IF module \in NamingEntries THEN {None, <<"-">>} ELSE {None})
    /\ prefixOpt = None
    /\ suffixOpt = None
    /\ caseOpt = "None"
    /\ caption = <<>>
    /\ name = <<>>
    /\ tpc = "idle"
    /\ pre = fs
    /\ log = <<>>
    /\ outdir = NoOutDir
    /\ work0 = {}
    /\ todo = {}
    /\ curFile = None
    /\ cur = None
    /\ ppc = "idle"
    /\ calls = <<>>
    /\ count = 0
    /\ skipped = {}
    /\ reported = {}
    /\ raisedOn = {}
    /\ exitCode = None
    /\ result = "none"
    /\ pc = "start"

Next ==
    \/ ResolveCliConvert
    \/ ResolveCliRename
    \/ ResolveConvertPy
    \/ ResolveRenamePy
    \/ ResolveCaptionPy
    \/ BeginFile
    \/ ConvertOpenSave
    \/ ConvertRemove
    \/ Resize
    \/ Compress
    \/ Report
    \/ CliConvertIteration
    \/ RenamePyIteration
    \/ CaptionPyIteration
    \/ CliRenameIteration
    \/ Finish

Spec == Init /\ [][Next]_vars

(***************************************************************************)
(* Properties of rename_file.                                              *)
(***************************************************************************)
LastCall == log[Len(log)]

\* the path the specification names for suffix k of (base, ext): base.ext for
\* k = 0, base{k}.ext in caption.py, base_{k}.ext in rename.py
ClaimedPath(m, base, ext, k) ==
    IF k = 0 THEN base \o ext
    ELSE IF m = "caption.py" THEN base \o IntToStr(k) \o ext
    ELSE base \o <<"_">> \o IntToStr(k) \o ext

\* C1: rename_file never overwrites an existing file.  After every
\* rename_file call of any sequence of calls, the destination did not exist
\* when the call started, the moved file is at the destination, every other
\* file is at its own path with its own content, and the number of files is
\* unchanged.
C1_NeverOverwrites ==
    (log # <<>> /\ ~LastCall.raised) =>
        /\ LastCall.dst \notin DOMAIN pre
        /\ LastCall.dst \in DOMAIN fs /\ fs[LastCall.dst] = pre[LastCall.src]
        /\ \A n \in DOMAIN pre \ {LastCall.src} : n \in DOMAIN fs /\ fs[n] = pre[n]
        /\ Cardinality(DOMAIN fs) = Cardinality(DOMAIN pre)

\* C1 witness: a third call in a row collided with an existing file and moved
\* its source elsewhere
C1_Witness ==
    /\ Len(log) = 3
    /\ ~LastCall.raised
    /\ LastCall.k >= 1
    /\ LastCall.base \o LastCall.ext \in DOMAIN pre
    /\ LastCall.src \notin DOMAIN fs

\* C3: result of the collision probe.  The file goes to base.ext when nothing
\* exists there, otherwise to the suffixed path of the smallest k >= 1 at
\* which nothing exists.
C3_SmallestFreeSuffix ==
    (log # <<>> /\ ~LastCall.raised) =>
        LET c == LastCall
            P(k) == ClaimedPath(module, c.base, c.ext, k)
        IN  /\ c.dst = P(c.k)
            /\ c.dst \in DOMAIN fs
            /\ P(0) \notin DOMAIN pre => c.k = 0
            /\ P(0) \in DOMAIN pre =>
                  /\ c.k >= 1
                  /\ P(c.k) \notin DOMAIN pre
                  /\ \A j \in 1..(c.k - 1) : P(j) \in DOMAIN pre

\* C3 witness: the spec's example; a.png and its first suffixed form both
\* existed, the file went to the second suffixed form
C3_Witness ==
    /\ log # <<>>
    /\ ~LastCall.raised
    /\ LastCall.new_name = <<"a">> \o PNG
    /\ LastCall.src = <<"b">> \o PNG
    /\ LastCall.k = 2
    /\ LastCall.dst \in {<<"a", "2">> \o PNG, <<"a", "_", "2">> \o PNG}

\* every call so far succeeded and asked for the same base name and extension
SameDesired ==
    \A i \in 1..Len(log) :
        /\ ~log[i].raised
        /\ log[i].base = log[1].base
        /\ log[i].ext = log[1].ext

\* the calls were made on pairwise different files
DistinctSources ==
    \A i, j \in 1..Len(log) : i # j => log[i].file # log[j].file

SuffixesIncrease == \A i, j \in 1..Len(log) : i < j => log[i].k < log[j].k

\* C7: strictly increasing suffixes.  Successive calls that ask for the same
\* desired base name and extension, each on a different existing file of the
\* directory, choose strictly increasing numeric suffixes, the unsuffixed
\* name counting as suffix 0.
C7_IncreasingSuffixes == (SameDesired /\ DistinctSources) => SuffixesIncrease

\* C8: collision avoidance is idempotent.  Renaming the file that a call just
\* placed, with the same desired name, leaves it where it is; a file whose
\* name already is the desired name keeps it.
C8_Idempotent ==
    /\ \A i \in 1..(Len(log) - 1) :
          (/\ ~log[i].raised /\ ~log[i+1].raised
           /\ log[i+1].src = log[i].dst
           /\ log[i+1].new_name = log[i].new_name)
          => log[i+1].dst = log[i].dst
    /\ \A i \in 1..Len(log) :
          (~log[i].raised /\ log[i].src = log[i].base \o log[i].ext)
          => log[i].dst = log[i].src

(***************************************************************************)
(* Properties of the text transform chain.                                 *)
(***************************************************************************)
\* the name the specification describes: normalize, then each supplied step
\* (an option is supplied when it is not None) in the order glue, prefix,
\* suffix, case
ClaimedName ==
    LET n0 == normalise(module, caption)
        n1 == IF glueOpt # None THEN glue(n0, glueOpt) ELSE n0
        n2 == IF prefixOpt # None THEN prefixOpt \o n1 ELSE n1
        n3 == IF suffixOpt # None THEN n2 \o suffixOpt ELSE n2
    IN  IF caseOpt # "None" THEN case(n3, caseOpt) ELSE n3

\* C4: fixed naming order.  The generated name is normalize followed by
\* exactly the supplied steps in the order glue, prefix, suffix, case, an
\* option counting as enabled whatever its value.
C4_FixedOrder == tpc = "named" => name = ClaimedName

\* C9: normalize is idempotent and never returns the empty string.
C9_NormaliseIdempotent ==
    tpc = "glue" => (normalise(module, name) = name /\ name # <<>>)

(***************************************************************************)
(* Properties of the runs.                                                 *)
(***************************************************************************)
\* the files whose iteration went through
Processed == {r.file : r \in reported}

\* the files for which a failure was shown: the printed ones, and the one a
\* traceback ends the script on
FailuresShown == skipped \cup (IF result = "traceback" THEN raisedOn ELSE {})

\* C2: per-file failure isolation.  When a directory run ends and the
\* processing of exactly one file raised, every other file found was
\* processed, exactly that file's failure is reported, and the convert
\* loops count N-1.
C2_FailureIsolation ==
    (pc = "exit" /\ isdir(pathArg) /\ Cardinality(raisedOn) = 1) =>
        /\ Processed = work0 \ raisedOn
        /\ FailuresShown = raisedOn
        /\ module \in ConvertEntries => count = Cardinality(work0) - 1

\* the extensions an entry point recognizes
RecognizedExts(m) ==
    IF m \in {"rename.py", "caption.py"} THEN IMAGE_EXTS_rename ELSE IMAGE_EXTS_convert

Recognized(m, p) == StrLower(splitext(p)[2]) \in RecognizedExts(m)

\* C5: outcome by kind of path argument, for the entry points the claim is
\* drawn from (cli.py's two handlers and rename.py): exit 0 and nothing
\* processed for a directory without images; exit 2, "unsupported" and an
\* untouched directory for a file with an unrecognized extension; exit 2 and
\* "not found" for a path that is neither; exit 1 when the single file's
\* processing raised.
C5_OutcomeByPathKind ==
    (pc = "exit" /\ module \in {"cli.convert", "cli.rename", "rename.py"}) =>
        /\ (isdir(pathArg) /\ \A n \in DOMAIN fs0 : ~Recognized(module, n)) =>
              (exitCode = 0 /\ Processed = {} /\ raisedOn = {})
        /\ (isfile(fs0, pathArg) /\ ~Recognized(module, pathArg)) =>
              (exitCode = 2 /\ result = "unsupported" /\ fs = fs0 /\ outdir = NoOutDir)
        /\ (~isdir(pathArg) /\ ~isfile(fs0, pathArg)) =>
              (exitCode = 2 /\ result = "not_found")
        /\ (~isdir(pathArg) /\ raisedOn # {}) => exitCode = 1

\* the extension convert_image gives the files of target format fmt
TargetExt(fmt) == <<".">> \o StrLower(FormatName(fmt))

\* C6: in-place batch conversion keeps one output per input.  After an
\* in-place directory run with a target format and no per-file error, the
\* directory holds exactly one file of the target extension per input file,
\* each input's picture is among them, and no original of another
\* extension remains.
C6_OneOutputPerInput ==
    (/\ pc = "exit" /\ isdir(pathArg)
     /\ module = "convert.py" \/ (module = "cli.convert" /\ replaceOpt)
     /\ fmtOpt # None /\ work0 # {} /\ raisedOn = {}) =>
        LET outs == {n \in DOMAIN fs : splitext(n)[2] = TargetExt(fmtOpt)}
        IN  /\ Cardinality(outs) = Cardinality(work0)
            /\ {fs[n].img : n \in outs} = work0
            /\ \A w \in work0 : splitext(w)[2] # TargetExt(fmtOpt) => w \notin DOMAIN fs

\* the operations requested for a file, in the order of the specification
RequestedStages ==
    (IF fmtOpt # None THEN <<"convert">> ELSE <<>>) \o
    (IF resizeOpt THEN <<"resize">> ELSE <<>>) \o
    (IF compressOpt THEN <<"compress">> ELSE <<>>)

\* C10: image stage order and path threading.  In a directory whose files
\* can all be read and encoded, the requested operations all run, in the
\* order convert, resize, compress, each on the path the one before it wrote
\* (the first on the original path), and the path reported as done is the
\* path the last one wrote.
C10_StageThreading ==
    (/\ module \in ConvertEntries
     /\ ppc \in {"done", "raised"}
     /\ RequestedStages # <<>>
     /\ \A n \in DOMAIN fs0 : ~fs0[n].bad /\ ~fs0[n].noenc) =>
        /\ ppc = "done"
        /\ Len(calls) = Len(RequestedStages)
        /\ \A i \in 1..Len(calls) :
              /\ calls[i].op = RequestedStages[i]
              /\ calls[i].input = (IF i = 1 THEN curFile ELSE calls[i-1].wrote)
        /\ [file |-> curFile, done |-> calls[Len(calls)].wrote] \in reported

(***************************************************************************)
(* Properties of convert_image.                                            *)
(***************************************************************************)
\* convert_image has been entered for the file of the iteration under way
InConvertImage == module = "convert.py" /\ curFile # None /\ fmtOpt # None

\* the call of convert_image for the current file has raised
ConvertRaised ==
    calls # <<>> /\ calls[1].op = "convert" /\ calls[1].wrote = None

\* the call of convert_image for the current file has returned
ConvertReturned ==
    calls # <<>> /\ calls[1].op = "convert" /\ calls[1].wrote # None /\ ppc # "remove"

\* what holds at every step of convert_image(curFile, fmtOpt)
OriginalOrNewExists ==
    InConvertImage =>
        LET new_path == NewPath(curFile, fmtOpt)
        IN  /\ curFile \in DOMAIN fs \/ new_path \in DOMAIN fs
            /\ ConvertRaised => curFile \in DOMAIN fs
            /\ ppc = "remove" => (curFile \in DOMAIN fs /\ new_path \in DOMAIN fs)
            /\ ConvertReturned =>
                  /\ new_path \in DOMAIN fs
                  /\ new_path = curFile => curFile \in DOMAIN fs
                  /\ curFile \notin DOMAIN fs => new_path # curFile

\* a step of a convert entry point that makes a file disappear is the removal
\* step of convert_image on that file, with a different new path at which a
\* file exists
DeletesOnlyAfterWrite ==
    module \in ConvertEntries =>
        \A f \in DOMAIN fs :
            f \notin DOMAIN fs' =>
                /\ ppc = "remove"
                /\ f = cur
                /\ NewPath(f, fmtOpt) # f
                /\ NewPath(f, fmtOpt) \in DOMAIN fs

\* a step in which convert_image raises leaves a file at the original path,
\* and leaves that file as it was when the new path is another path
RaiseKeepsOriginal ==
    (module = "convert.py" /\ ppc = "convert" /\ ppc' = "raised") =>
        /\ cur \in DOMAIN fs'
        /\ NewPath(cur, fmtOpt) # cur => fs'[cur] = fs[cur]

\* C11: delete only after write in in-place conversion.  convert_image
\* removes the original only when the new path differs from it and a file
\* exists at the new path; when opening or encoding raises, a file is still
\* at the original path; when the two paths are equal nothing is deleted; at
\* every step at least one of the original and the new file exists.
C11_DeleteOnlyAfterWrite ==
    /\ []OriginalOrNewExists
    /\ [][DeletesOnlyAfterWrite /\ RaiseKeepsOriginal]_vars

\* C11 witness: convert_image returned, the original is gone and the new file
\* is there
C11_Witness ==
    /\ InConvertImage
    /\ ConvertReturned
    /\ curFile \notin DOMAIN fs
    /\ NewPath(curFile, fmtOpt) \in DOMAIN fs

====
